---- MODULE Spec2Model ----
(***************************************************************************)
(* Sample stores (customDataset, CustomDataset) and the batch iterator     *)
(* (torch.utils.data.DataLoader) of the two notebooks, and the network,    *)
(* optimizer and training loop of the transfer-learning notebook.          *)
(*                                                                         *)
(* Python sequences are modelled as TLA+ sequences: the Python position i  *)
(* (0-based) is the TLA+ position i + 1.  Floating point values are kept   *)
(* as integers (thousandths).                                              *)
(***************************************************************************)
EXTENDS Integers, Sequences, FiniteSets, TLC

VARIABLES
    X,          \* the feature array the store is built from
    y,          \* the label array the store is built from
    dataset,    \* the sample store object (self of customDataset / CustomDataset)
    dataloader, \* the batch iterator object: construction state and configuration
    itState,    \* the pass: "none", "active", "exhausted" or "failed"
    order,      \* the index sequence of the current (or last) pass
    pos,        \* how many indices of order the pass has consumed
    batches,    \* the index groups of the batches yielded in the current pass
    getCount,   \* per index, the __getitem__ calls the current pass has made
    passNo,     \* the number of passes started
    redrawn,    \* the last pass started with an order other than the one before
    ret,        \* what the last call returned or raised
    tlog,       \* the images the last call handed to the transform, in call order
    lenCount,   \* the __len__ calls the sampler has made on the store in the current pass
    pc,         \* the statement of the training notebook that runs next
    vgg16,      \* the network: its feature stage and its classifier
    optimizer,  \* the optimizer and the parameters it was given
    epoch,      \* the loop variable of the training loop (-1 before the loop)
    total_epoch_loss, \* the loss accumulator of the running epoch
    outputs,    \* the result of the forward pass on the current batch
    loss,       \* the loss of the current batch
    avg_loss,   \* the average the last finished epoch computed
    reports,    \* the epoch numbers printed so far
    ops,        \* the training operations applied to the current batch, in order
    optSteps,   \* the optimizer steps taken in the running epoch
    getTotal,   \* per index, the __getitem__ calls of all passes of the training loop
    lossAdds,   \* the additions made to the loss accumulator in the running epoch
    total,      \* the samples the evaluation has counted (-1 before the cell)
    correct,    \* the right predictions the evaluation has counted (-1 before the cell)
    predicted,  \* the class the network gives each sample of the current batch
    grad_enabled, \* torch's gradient mode: operations record a graph
    accuracy    \* the quotient the evaluation cell has printed

storeVars == <<X, y, dataset, dataloader, itState, order, pos, batches, getCount,
               passNo, redrawn, ret, tlog, lenCount>>

trainVars == <<pc, vgg16, optimizer, epoch, total_epoch_loss, outputs, loss,
               avg_loss, reports, ops, optSteps, getTotal, lossAdds,
               total, correct, predicted, grad_enabled, accuracy>>

vars == <<storeVars, trainVars>>

----------------------------------------------------------------------------
(* Bounds of the model *)

MaxN == 3
MaxB == 2
MaxPasses == 2
\* the number of epochs of the training loop (10 in the notebook)
epochs == 2
\* loss.item() is one of 0..MaxLoss
MaxLoss == 1
NumSeeds == 1
\* the side of the square image a flat buffer holds (28 in the notebook, whose
\* buffers have 28 * 28 = 784 values); the model keeps the images small
ImgSide == 2

(* Constants of the program *)

ResizeSize == 256
CropSize == 224
NumChannels == 3
Uint8Mod == 256

Min(a, b) == IF a < b THEN a ELSE b

\* the sequences of ss joined in order
RECURSIVE Concat(_)
Concat(ss) == IF ss = <<>> THEN <<>> ELSE Head(ss) \o Concat(Tail(ss))

----------------------------------------------------------------------------
(* Python indexing and exceptions *)

Raise(exc) == [tag |-> "error", exc |-> exc]

\* seq[idx] of a Python sequence / numpy array / tensor along its first axis:
\* a negative idx counts from the end, anything outside -n..n-1 raises.
PyIndex(seq, idx) ==
    LET n == Len(seq) IN
    IF 0 <= idx /\ idx < n THEN [ok |-> TRUE, val |-> seq[idx + 1]]
    ELSE IF -n <= idx /\ idx < 0 THEN [ok |-> TRUE, val |-> seq[n + idx + 1]]
    ELSE [ok |-> FALSE, exc |-> "IndexError"]

----------------------------------------------------------------------------
(* The in-memory store: class customDataset *)

customDataset__init__Dropped(features, labels) ==
    [kind |-> "memory", features |-> features,
     labels |-> IF labels = <<>> THEN labels ELSE Tail(labels)]

customDataset__init__(features, labels) ==
    [kind |-> "memory", features |-> features, labels |-> labels]

\* a bug that reports the second dimension (the width of a row)
customDataset__len__Width(self) ==
    IF self.features = <<>> THEN 0 ELSE Len(self.features[1])

\* features.shape[0]
customDataset__len__(self) == Len(self.features)

\* a bug that pairs the feature with the label of the position before
customDataset__getitem__Shifted(self, idx) ==
    LET f == PyIndex(self.features, idx)
        l == PyIndex(self.labels, idx - 1)
    IN  IF ~f.ok THEN Raise(f.exc)
        ELSE IF ~l.ok THEN Raise(l.exc)
        ELSE [tag |-> "item", feature |-> f.val, label |-> l.val]

\* a bug that wraps every index into the valid range
customDataset__getitem__Wrapped(self, idx) ==
    LET n == Len(self.features)
        j == IF n = 0 THEN idx ELSE idx % n
        f == PyIndex(self.features, j)
        l == PyIndex(self.labels, j)
    IN  IF ~f.ok THEN Raise(f.exc)
        ELSE IF ~l.ok THEN Raise(l.exc)
        ELSE [tag |-> "item", feature |-> f.val, label |-> l.val]

\* return self.features[idx], self.labels[idx]
customDataset__getitem__(self, idx) ==
    LET f == PyIndex(self.features, idx)
        l == PyIndex(self.labels, idx)
    IN  IF ~f.ok THEN Raise(f.exc)
        ELSE IF ~l.ok THEN Raise(l.exc)
        ELSE [tag |-> "item", feature |-> f.val, label |-> l.val]

----------------------------------------------------------------------------
(* The flat-buffer store: class CustomDataset, and custom_transform *)

\* numpy reshape(rows, cols) of a flat buffer, row-major (C order)
\* a reshape that fills the grid column by column (Fortran order)
ReshapeColumnMajor(buf, rows, cols) ==
    IF Len(buf) # rows * cols THEN [ok |-> FALSE, exc |-> "ValueError"]
    ELSE [ok |-> TRUE,
          val |-> [r \in 1..rows |-> [c \in 1..cols |-> buf[(c - 1) * rows + r]]]]

Reshape(buf, rows, cols) ==
    IF Len(buf) # rows * cols THEN [ok |-> FALSE, exc |-> "ValueError"]
    ELSE [ok |-> TRUE,
          val |-> [r \in 1..rows |-> [c \in 1..cols |-> buf[(r - 1) * cols + c]]]]

\* a conversion that saturates at the ends of the byte range
AsUint8Clipped(grid) ==
    [r \in DOMAIN grid |->
        [c \in DOMAIN grid[r] |->
            IF grid[r][c] < 0 THEN 0
            ELSE IF grid[r][c] >= Uint8Mod THEN Uint8Mod - 1 ELSE grid[r][c]]]

\* numpy astype(np.uint8) of an integer grid: the value modulo 2^8
AsUint8(grid) ==
    [r \in DOMAIN grid |-> [c \in DOMAIN grid[r] |-> grid[r][c] % Uint8Mod]]

\* np.stack((image,)*3, axis=-1): every pixel becomes three equal channel values
Stack3(grid) ==
    [r \in DOMAIN grid |->
        [c \in DOMAIN grid[r] |-> [ch \in 1..NumChannels |-> grid[r][c]]]]

\* Image.fromarray of an H x W x 3 uint8 array
FromArray(arr) ==
    [type |-> "PIL", mode |-> "RGB", h |-> Len(arr), w |-> Len(arr[1]), px |-> arr]

\* One stage of transforms.Compose.  The geometry (height, width, channel
\* layout) is computed; the pixel content is kept as the term of the stages
\* applied to the source pixels.
ApplyStage(stage, v) ==
    CASE stage.op = "Resize" ->
           \* the smaller edge becomes size, the other keeps the aspect ratio
           LET nh == IF v.h <= v.w THEN stage.size ELSE (stage.size * v.h) \div v.w
               nw == IF v.w <= v.h THEN stage.size ELSE (stage.size * v.w) \div v.h
           IN  [type |-> "PIL", mode |-> v.mode, h |-> nh, w |-> nw,
                px |-> [op |-> "Resize", h |-> nh, w |-> nw, from |-> v.px]]
      [] stage.op = "CenterCrop" ->
           [type |-> "PIL", mode |-> v.mode, h |-> stage.size, w |-> stage.size,
            px |-> [op |-> "CenterCrop", top |-> (v.h - stage.size) \div 2,
                    left |-> (v.w - stage.size) \div 2, from |-> v.px]]
      [] stage.op = "ToTensor" ->
           \* H x W x C bytes become a C x H x W tensor scaled by 1/255
           [type |-> "Tensor", shape |-> <<NumChannels, v.h, v.w>>,
            data |-> [op |-> "ToTensor", scale |-> 255, from |-> v.px]]
      [] stage.op = "Normalize" ->
           [type |-> "Tensor", shape |-> v.shape,
            data |-> [op |-> "Normalize", mean |-> stage.mean, std |-> stage.std,
                      from |-> v.data]]

\* transforms.Compose.__call__: the stages in order
RECURSIVE Compose(_, _)
Compose(stages, v) ==
    IF stages = <<>> THEN v ELSE Compose(Tail(stages), ApplyStage(Head(stages), v))

custom_transform ==
    << [op |-> "Resize", size |-> ResizeSize],
       [op |-> "CenterCrop", size |-> CropSize],
       [op |-> "ToTensor"],
       [op |-> "Normalize", mean |-> <<485, 456, 406>>, std |-> <<229, 224, 225>>] >>

CustomDataset__init__(features, labels, transform) ==
    [kind |-> "flat", features |-> features, labels |-> labels,
     transform |-> transform]

\* len(self.features)
CustomDataset__len__(self) == Len(self.features)

CustomDataset__getitem__(self, idx) ==
    LET row == PyIndex(self.features, idx) IN
    IF ~row.ok THEN Raise(row.exc)
    ELSE
      LET grid == Reshape(row.val, ImgSide, ImgSide) IN
      IF ~grid.ok THEN Raise(grid.exc)
      ELSE
        LET image == Compose(self.transform, FromArray(Stack3(AsUint8(grid.val))))
            l == PyIndex(self.labels, idx)
        IN  IF ~l.ok THEN Raise(l.exc)
            ELSE [tag |-> "item", feature |-> image, label |-> l.val]

\* a constructor that transforms every image when the store is built
CustomDataset__init__TransformCallsEager(features, labels, transform) ==
    [i \in 1..Len(features) |->
        FromArray(Stack3(AsUint8(Reshape(features[i], ImgSide, ImgSide).val)))]

\* the images __init__ hands to the transform: it only stores its arguments
CustomDataset__init__TransformCalls(features, labels, transform) == <<>>

\* the images one __getitem__ call hands to self.transform: the widened image
\* of the row, once, unless indexing or reshape has raised before
CustomDataset__getitem__TransformCalls(self, idx) ==
    LET row == PyIndex(self.features, idx) IN
    IF ~row.ok THEN <<>>
    ELSE
      LET grid == Reshape(row.val, ImgSide, ImgSide) IN
      IF ~grid.ok THEN <<>>
      ELSE << FromArray(Stack3(AsUint8(grid.val))) >>

----------------------------------------------------------------------------
(* Dispatch on the class of the store *)

\* customDataset has no transform
transformCalls(self, idx) ==
    IF self.kind = "memory" THEN <<>>
    ELSE CustomDataset__getitem__TransformCalls(self, idx)

len(self) ==
    IF self.kind = "memory" THEN customDataset__len__(self)
    ELSE CustomDataset__len__(self)

\* a get whose answer depends on how many passes have started (a label that
\* is re-drawn per epoch)
getitemPassDependent(self, idx) ==
    LET r == IF self.kind = "memory" THEN customDataset__getitem__(self, idx)
             ELSE CustomDataset__getitem__(self, idx)
    IN  IF r.tag = "item" THEN [r EXCEPT !.label = @ + passNo] ELSE r

getitem(self, idx) ==
    IF self.kind = "memory" THEN customDataset__getitem__(self, idx)
    ELSE CustomDataset__getitem__(self, idx)

----------------------------------------------------------------------------
(* The arrays the notebooks build their stores from *)

\* rows of two features (make_classification, n_features = 2)
MemX(s, n) == [i \in 1..n |-> << ((i * s) % 5) - 2, (i + s) % 3 >>]
MemY(s, n) == [i \in 1..n |-> ((i + s) \div s) % 2]

\* rows of ImgSide * ImgSide pixel values and a class label 0..9 (the CSV);
\* an odd seed gives values outside 0..255 too
FlatX(s, n) ==
    [i \in 1..n |->
        [k \in 1..(ImgSide * ImgSide) |->
            IF s % 2 = 1 THEN ((31 * k + 183 * i + s) % 300) - 20
            ELSE (k * i * 7 + s) % 256]]
FlatY(s, n) == [i \in 1..n |-> (3 * i + s) % 10]

----------------------------------------------------------------------------
(* The batch iterator: torch.utils.data.DataLoader as the notebooks use it  *)
(* (map-style store, automatic batching, drop_last = False, no workers)     *)

\* a sampler that draws every index independently (with replacement)
RandomSampler__iter__Replacing(n) == [1..n -> 0..(n - 1)]

\* RandomSampler.__iter__: torch.randperm(n).tolist(), any permutation of 0..n-1
RandomSampler__iter__(n) == {[i \in 1..n |-> f[i] - 1] : f \in Permutations(1..n)}

\* a sampler that walks the store backwards
SequentialSampler__iter__Reversed(n) == [i \in 1..n |-> n - i]

\* SequentialSampler.__iter__: iter(range(n))
SequentialSampler__iter__(n) == [i \in 1..n |-> i - 1]

\* a batch sampler that hands out an empty group and never moves on
BatchSampler__next__Stuck(ord, p, b) == SubSeq(ord, p + 1, p)

\* a batch sampler that takes one index too many
BatchSampler__next__Oversized(ord, p, b) ==
    SubSeq(ord, p + 1, Min(p + b + 1, Len(ord)))

\* BatchSampler.__iter__ with drop_last = False: the next batch_size indices of
\* the sampler, or the ones that are left
BatchSampler__next__(ord, p, b) == SubSeq(ord, p + 1, Min(p + b, Len(ord)))

\* a collate function that stacks the labels in the opposite order
default_collateReversed(samples) ==
    [features |-> [k \in 1..Len(samples) |-> samples[k].feature],
     labels |-> [k \in 1..Len(samples) |-> samples[Len(samples) + 1 - k].label]]

\* default_collate of a list of (feature, label) pairs: two stacks in list order
default_collate(samples) ==
    [features |-> [k \in 1..Len(samples) |-> samples[k].feature],
     labels |-> [k \in 1..Len(samples) |-> samples[k].label]]

\* a constructor that does not look at the batch size
DataLoader__init__Unchecked(ds, batch_size, shuffle) ==
    IF shuffle /\ len(ds) <= 0
    THEN [state |-> "error", exc |-> "ValueError",
          batch_size |-> batch_size, shuffle |-> shuffle]
    ELSE [state |-> "ready", exc |-> "",
          batch_size |-> batch_size, shuffle |-> shuffle]

\* DataLoader.__init__: shuffle = True builds a RandomSampler, which rejects a
\* store of length 0; then the BatchSampler rejects a batch size <= 0.
DataLoader__init__(ds, batch_size, shuffle) ==
    IF shuffle /\ len(ds) <= 0
    THEN [state |-> "error", exc |-> "ValueError",
          batch_size |-> batch_size, shuffle |-> shuffle]
    ELSE IF batch_size <= 0
    THEN [state |-> "error", exc |-> "ValueError",
          batch_size |-> batch_size, shuffle |-> shuffle]
    ELSE [state |-> "ready", exc |-> "",
          batch_size |-> batch_size, shuffle |-> shuffle]

\* a sampler that reads the size of the store once, whatever its kind
SamplerLenCallsOnce(shuffle, used_up) == IF used_up THEN 0 ELSE 1

\* The __len__ calls a sampler makes on the store.  SequentialSampler.__iter__
\* reads range(len(data_source)); RandomSampler.__iter__ reads
\* n = len(data_source) and self.num_samples, which is len(data_source) again,
\* when it draws the permutation, and self.num_samples once more for the
\* remainder slice when the permutation is used up.
SamplerLenCalls(shuffle, used_up) ==
    IF shuffle THEN (IF used_up THEN 1 ELSE 2)
    ELSE (IF used_up THEN 0 ELSE 1)

\* an iterator that draws its order once and keeps it for the later passes
PassOrdersCached(ds, shuffle) ==
    IF shuffle
    THEN IF passNo = 0 THEN RandomSampler__iter__(len(ds)) ELSE {order}
    ELSE {SequentialSampler__iter__(len(ds))}

\* the orders a new pass may use: the sampler is asked again at every iter()
PassOrders(ds, shuffle) ==
    IF shuffle THEN RandomSampler__iter__(len(ds))
    ELSE {SequentialSampler__iter__(len(ds))}

----------------------------------------------------------------------------
(* Initial states: the arrays, and the store constructed from them *)

Seeds == 1..NumSeeds
Sizes == 0..MaxN
BatchSizes == (-1)..MaxB
Indices == (-(MaxN + 1))..(MaxN + 1)

\* the training notebook before its loader cell has run
ScriptNotStarted ==
    /\ pc = "loader"
    /\ vgg16 = [state |-> "none"]
    /\ optimizer = [state |-> "none"]
    /\ epoch = -1
    /\ total_epoch_loss = 0
    /\ outputs = [state |-> "none"]
    /\ loss = [state |-> "none"]
    /\ avg_loss = [state |-> "none"]
    /\ reports = <<>>
    /\ ops = <<>>
    /\ optSteps = 0
    /\ getTotal = [i \in 0..(Len(X) - 1) |-> 0]
    /\ lossAdds = 0
    /\ total = -1
    /\ correct = -1
    /\ predicted = <<>>
    /\ grad_enabled = TRUE
    /\ accuracy = [state |-> "none"]

\* before any DataLoader is built: no iterator, no pass, no call made yet
NothingRunYet ==
    /\ dataloader = [state |-> "none", exc |-> "", batch_size |-> 0, shuffle |-> FALSE]
    /\ itState = "none"
    /\ order = <<>>
    /\ pos = 0
    /\ batches = <<>>
    /\ getCount = [i \in 0..(Len(X) - 1) |-> 0]
    /\ passNo = 0
    /\ redrawn = FALSE
    /\ ret = [call |-> "none", tag |-> "none"]
    /\ tlog = IF dataset.kind = "memory" THEN <<>>
              ELSE CustomDataset__init__TransformCalls(X, y, dataset.transform)
    /\ lenCount = 0
    /\ ScriptNotStarted

Init ==
    /\ \E n \in Sizes, s \in Seeds, k \in {"memory", "flat"} :
         /\ X = IF k = "memory" THEN MemX(s, n) ELSE FlatX(s, n)
         /\ y = IF k = "memory" THEN MemY(s, n) ELSE FlatY(s, n)
         /\ dataset = IF k = "memory" THEN customDataset__init__(X, y)
                      ELSE CustomDataset__init__(X, y, custom_transform)
    /\ NothingRunYet

\* the in-memory notebook alone: dataset = customDataset(X, y)
InitMemory ==
    /\ \E n \in Sizes, s \in Seeds :
         /\ X = MemX(s, n)
         /\ y = MemY(s, n)
         /\ dataset = customDataset__init__(X, y)
    /\ NothingRunYet

\* A pixel table one column short: every row has ImgSide * ImgSide - 1 values,
\* the constructor accepts it and reshape fails at the first retrieval
InitNarrow ==
    /\ \E n \in Sizes, s \in Seeds :
         /\ X = [i \in 1..n |-> SubSeq(FlatX(s, n)[i], 1, ImgSide * ImgSide - 1)]
         /\ y = FlatY(s, n)
         /\ dataset = CustomDataset__init__(X, y, custom_transform)
    /\ NothingRunYet

----------------------------------------------------------------------------
(* Calls on the store from the notebook cells *)

\* len(dataset)
Len_ ==
    /\ ret' = [call |-> "len", tag |-> "value", val |-> len(dataset)]
    /\ tlog' = <<>>
    /\ UNCHANGED <<X, y, dataset, dataloader, itState, order, pos, batches,
                   getCount, passNo, redrawn, lenCount, trainVars>>

\* a get that consumes what it returns: the store loses its last sample
GetitemConsuming ==
    \E idx \in Indices :
      LET r == getitem(dataset, idx)
          n == Len(dataset.features)
      IN
      /\ ret' = IF r.tag = "item"
                THEN [call |-> "getitem", idx |-> idx, tag |-> "item",
                      feature |-> r.feature, label |-> r.label]
                ELSE [call |-> "getitem", idx |-> idx, tag |-> "error",
                      exc |-> r.exc]
      /\ dataset' = IF r.tag = "item"
                    THEN [dataset EXCEPT !.features = SubSeq(@, 1, n - 1),
                                         !.labels = SubSeq(@, 1, n - 1)]
                    ELSE dataset
      /\ tlog' = transformCalls(dataset, idx)
      /\ UNCHANGED <<X, y, dataloader, itState, order, pos, batches,
                     getCount, passNo, redrawn, lenCount, trainVars>>

\* dataset[idx]
Getitem ==
    \E idx \in Indices :
      LET r == getitem(dataset, idx) IN
      /\ ret' = IF r.tag = "item"
                THEN [call |-> "getitem", idx |-> idx, tag |-> "item",
                      feature |-> r.feature, label |-> r.label]
                ELSE [call |-> "getitem", idx |-> idx, tag |-> "error",
                      exc |-> r.exc]
      /\ tlog' = transformCalls(dataset, idx)
      /\ UNCHANGED <<X, y, dataset, dataloader, itState, order, pos, batches,
                     getCount, passNo, redrawn, lenCount, trainVars>>

----------------------------------------------------------------------------
(* The batch iterator *)

\* dataloader = DataLoader(dataset, batch_size = b, shuffle = sh)
MakeLoader(b, sh) ==
    /\ dataloader.state = "none"
    /\ dataloader' = DataLoader__init__(dataset, b, sh)
    /\ ret' = IF dataloader'.state = "error"
              THEN [call |-> "DataLoader", tag |-> "error", exc |-> dataloader'.exc]
              ELSE [call |-> "DataLoader", tag |-> "loader"]
    /\ tlog' = <<>>
    /\ UNCHANGED <<X, y, dataset, itState, order, pos, batches, getCount,
                   passNo, redrawn, lenCount>>

\* the loader cell, with any arguments
Construct ==
    \E b \in BatchSizes, sh \in BOOLEAN : MakeLoader(b, sh) /\ UNCHANGED trainVars

\* iter(dataloader): a pass starts, with the order its sampler gives
StartPass ==
    /\ dataloader.state = "ready"
    /\ \E o \in PassOrders(dataset, dataloader.shuffle) :
         /\ order' = o
         /\ redrawn' = (passNo >= 1 /\ o # order)
    /\ itState' = "active"
    /\ pos' = 0
    /\ batches' = <<>>
    /\ passNo' = passNo + 1
    /\ getCount' = [i \in DOMAIN getCount |-> 0]
    /\ ret' = [call |-> "iter", tag |-> "iterator"]
    /\ tlog' = <<>>
    /\ lenCount' = SamplerLenCalls(dataloader.shuffle, FALSE)
    /\ UNCHANGED <<X, y, dataset, dataloader>>

\* a cell that iterates the loader again; the model stops at MaxPasses passes
Iter ==
    /\ passNo < MaxPasses
    /\ StartPass
    /\ UNCHANGED trainVars

\* how often index i occurs among the first m entries of group
Occurrences(group, m, i) == Cardinality({k \in 1..m : group[k] = i})

\* subsequence of q at the positions in keep, in order
RECURSIVE Keep(_, _, _)
Keep(q, keep, k) ==
    IF k > Len(q) THEN <<>>
    ELSE (IF k \in keep THEN <<q[k]>> ELSE <<>>) \o Keep(q, keep, k + 1)

\* an iterator that drops the samples whose retrieval fails and yields the rest
NextSkipping ==
    /\ itState = "active"
    /\ IF pos >= Len(order)
       THEN /\ itState' = "exhausted"
            /\ ret' = [call |-> "next", tag |-> "error", exc |-> "StopIteration"]
            /\ UNCHANGED <<pos, batches, getCount>>
       ELSE LET group == BatchSampler__next__(order, pos, dataloader.batch_size)
                samples == [k \in 1..Len(group) |-> getitem(dataset, group[k])]
                good == {k \in 1..Len(group) : samples[k].tag = "item"}
                batch == default_collate(Keep(samples, good, 1))
            IN  /\ ret' = [call |-> "next", tag |-> "batch",
                           features |-> batch.features, labels |-> batch.labels]
                /\ batches' = Append(batches, group)
                /\ pos' = pos + Len(group)
                /\ getCount' = [i \in DOMAIN getCount |->
                                  getCount[i] + Occurrences(group, Len(group), i)]
                /\ itState' = itState
    /\ tlog' = <<>>
    /\ UNCHANGED <<X, y, dataset, dataloader, order, passNo, redrawn, lenCount>>

\* an iterator that fetches the samples of the following group ahead of time
NextPrefetching ==
    /\ itState = "active"
    /\ IF pos >= Len(order)
       THEN /\ itState' = "exhausted"
            /\ ret' = [call |-> "next", tag |-> "error", exc |-> "StopIteration"]
            /\ UNCHANGED <<pos, batches, getCount>>
       ELSE LET group == BatchSampler__next__(order, pos, dataloader.batch_size)
                ahead == BatchSampler__next__(order, pos + Len(group),
                                              dataloader.batch_size)
                samples == [k \in 1..Len(group) |-> getitem(dataset, group[k])]
                batch == default_collate(samples)
            IN  /\ ret' = [call |-> "next", tag |-> "batch",
                           features |-> batch.features, labels |-> batch.labels]
                /\ batches' = Append(batches, group)
                /\ pos' = pos + Len(group)
                /\ getCount' = [i \in DOMAIN getCount |->
                                  IF getCount[i] > 0 THEN getCount[i]
                                  ELSE Occurrences(group \o ahead,
                                                   Len(group) + Len(ahead), i)]
                /\ itState' = itState
    /\ tlog' = <<>>
    /\ UNCHANGED <<X, y, dataset, dataloader, order, passNo, redrawn, lenCount>>

\* an iterator that pops the indices it hands out from its order
NextPopping ==
    /\ itState = "active"
    /\ IF order = <<>>
       THEN /\ itState' = "exhausted"
            /\ ret' = [call |-> "next", tag |-> "error", exc |-> "StopIteration"]
            /\ UNCHANGED <<order, batches, getCount>>
       ELSE LET group == BatchSampler__next__(order, 0, dataloader.batch_size)
                samples == [k \in 1..Len(group) |-> getitem(dataset, group[k])]
                batch == default_collate(samples)
            IN  /\ ret' = [call |-> "next", tag |-> "batch",
                           features |-> batch.features, labels |-> batch.labels]
                /\ batches' = Append(batches, group)
                /\ order' = SubSeq(order, Len(group) + 1, Len(order))
                /\ getCount' = [i \in DOMAIN getCount |->
                                  getCount[i] + Occurrences(group, Len(group), i)]
                /\ itState' = itState
    /\ tlog' = <<>>
    /\ UNCHANGED <<X, y, dataset, dataloader, pos, passNo, redrawn, lenCount>>

\* next(iterator): fetch the samples of the next index group and collate
\* them, or raise StopIteration when the order is used up
DataLoader__next__ ==
    /\ itState = "active"
    /\ IF pos >= Len(order)
       THEN /\ itState' = "exhausted"
            /\ ret' = [call |-> "next", tag |-> "error", exc |-> "StopIteration"]
            /\ tlog' = <<>>
            /\ lenCount' = lenCount +
                   (IF Len(order) % dataloader.batch_size = 0
                    THEN SamplerLenCalls(dataloader.shuffle, TRUE) ELSE 0)
            /\ UNCHANGED <<pos, batches, getCount>>
       ELSE LET group == BatchSampler__next__(order, pos, dataloader.batch_size)
                samples == [k \in 1..Len(group) |-> getitem(dataset, group[k])]
                bad == {k \in 1..Len(group) : samples[k].tag = "error"}
                calls == [k \in 1..Len(group) |-> transformCalls(dataset, group[k])]
                \* a short group: the batch sampler has run the sampler to its end
                probes == IF Len(group) < dataloader.batch_size
                          THEN SamplerLenCalls(dataloader.shuffle, TRUE) ELSE 0
            IN  IF bad = {}
                THEN LET batch == default_collate(samples) IN
                     /\ ret' = [call |-> "next", tag |-> "batch",
                                features |-> batch.features, labels |-> batch.labels]
                     /\ batches' = Append(batches, group)
                     /\ pos' = pos + Len(group)
                     /\ getCount' = [i \in DOMAIN getCount |->
                                       getCount[i] + Occurrences(group, Len(group), i)]
                     /\ itState' = itState
                     /\ tlog' = Concat(calls)
                     /\ lenCount' = lenCount + probes
                ELSE LET k0 == CHOOSE k \in bad : \A j \in bad : k <= j IN
                     /\ ret' = [call |-> "next", tag |-> "error",
                                exc |-> samples[k0].exc]
                     /\ getCount' = [i \in DOMAIN getCount |->
                                       getCount[i] + Occurrences(group, k0, i)]
                     /\ itState' = "failed"
                     /\ tlog' = Concat(SubSeq(calls, 1, k0))
                     /\ lenCount' = lenCount + probes
                     /\ UNCHANGED <<pos, batches>>
    /\ UNCHANGED <<X, y, dataset, dataloader, order, passNo, redrawn>>

\* the loop of a cell asks for the next batch
Next_ == DataLoader__next__ /\ UNCHANGED trainVars

Next == Len_ \/ Getitem \/ Construct \/ Iter \/ Next_

Spec == Init /\ [][Next]_vars

\* The in-memory notebook with its for statement: the loop keeps calling
\* next() until the iterator raises, so as long as a pass is active its next
\* request is eventually made.
SpecLoop == InitMemory /\ [][Next]_vars /\ WF_vars(Next_)

\* the same cells run on the pixel table that is one column short
SpecNarrow == InitNarrow /\ [][Next]_vars

----------------------------------------------------------------------------
(* The training notebook: the network, the optimizer and the training loop  *)
(* A parameter group is kept as where its values come from and how many     *)
(* optimizer updates they have received; grad is "None" or "set".           *)

Linear(in, out) == [op |-> "Linear", in |-> in, out |-> out]
ReLU == [op |-> "ReLU"]
Dropout == [op |-> "Dropout"]

Parameters(origin) ==
    [value |-> [origin |-> origin, updates |-> 0],
     requires_grad |-> TRUE, grad |-> "None"]

ParamGroups == {"features", "classifier"}

\* models.vgg16(pretrained=True): the feature stage and the 1000-class head,
\* both with the pretrained values
models_vgg16 ==
    [state |-> "model", training |-> TRUE,
     layers |-> << Linear(25088, 4096), ReLU, Dropout, Linear(4096, 4096), ReLU,
                   Dropout, Linear(4096, 1000) >>,
     features |-> Parameters("pretrained"),
     classifier |-> Parameters("pretrained")]

\* a freeze step that leaves the feature stage trainable
FreezeFeaturesSkipped(model) == model

\* for param in vgg16.features.parameters(): param.requires_grad = False
FreezeFeatures(model) == [model EXCEPT !.features.requires_grad = FALSE]

\* vgg16.classifier = nn.Sequential(...): new layers with new parameters
ReplaceClassifier(model) ==
    [model EXCEPT
       !.layers = << Linear(25088, 1024), ReLU, Dropout, Linear(1024, 512), ReLU,
                     Dropout, Linear(512, 10) >>,
       !.classifier = Parameters("initial")]

\* optim.Adam(vgg16.classifier.parameters(), lr=lr)
Adam(groups) == [state |-> "optimizer", params |-> groups]

\* vgg16(batch_features): one row of scores per sample, one column per output
\* of the last layer; the result hangs on the groups that require a gradient,
\* unless gradient mode is off
Forward(model, batch_features) ==
    [state |-> "outputs", rows |-> Len(batch_features),
     cols |-> model.layers[Len(model.layers)].out,
     graph |-> IF grad_enabled THEN {g \in ParamGroups : model[g].requires_grad}
               ELSE {}]

\* criterion(outputs, batch_labels): a scalar on the same graph; its value
\* depends on weights, data and dropout and is left open
CrossEntropyLoss(out, batch_labels, item) ==
    [state |-> "loss", graph |-> out.graph, item |-> item]

\* optimizer.zero_grad(): the gradients of the optimizer's parameters are reset
ZeroGrad(opt, model) ==
    [g \in DOMAIN model |->
        IF g \in opt.params THEN [model[g] EXCEPT !.grad = "None"] ELSE model[g]]

\* loss.backward(): every group on the graph of the loss receives a gradient
Backward(l, model) ==
    [g \in DOMAIN model |->
        IF g \in l.graph THEN [model[g] EXCEPT !.grad = "set"] ELSE model[g]]

\* optimizer.step(): Adam updates each of its parameters that has a gradient
OptimizerStep(opt, model) ==
    [g \in DOMAIN model |->
        IF g \in opt.params /\ model[g].grad = "set"
        THEN [model[g] EXCEPT !.value.updates = @ + 1] ELSE model[g]]

\* a length that leaves out the last, shorter batch
DataLoader__len__Floor(ds, loader) == len(ds) \div loader.batch_size

\* len(train_loader): the number of batches of one pass
DataLoader__len__(ds, loader) ==
    (len(ds) + loader.batch_size - 1) \div loader.batch_size

LossItems == 0..MaxLoss

\* the notebook starts from a well-formed pixel table
InitTrain ==
    /\ \E n \in Sizes, s \in Seeds :
         /\ X = FlatX(s, n)
         /\ y = FlatY(s, n)
         /\ dataset = CustomDataset__init__(X, y, custom_transform)
    /\ NothingRunYet

evalVars == <<total, correct, predicted, grad_enabled, accuracy>>

loopVars == <<epoch, total_epoch_loss, outputs, loss, avg_loss, reports, ops,
              optSteps, getTotal, lossAdds, evalVars>>

\* train_loader = DataLoader(train_dataset, batch_size=32, shuffle=True); the
\* model keeps both arguments open (batch sizes up to MaxB)
TrainLoader ==
    /\ pc = "loader"
    /\ \E b \in 1..MaxB, sh \in BOOLEAN : MakeLoader(b, sh)
    /\ pc' = IF dataloader'.state = "error" THEN "error" ELSE "model"
    /\ UNCHANGED <<vgg16, optimizer, loopVars>>

\* vgg16 = models.vgg16(pretrained=True)
LoadModel ==
    /\ pc = "model"
    /\ vgg16' = models_vgg16
    /\ pc' = "freeze"
    /\ UNCHANGED <<storeVars, optimizer, loopVars>>

Freeze ==
    /\ pc = "freeze"
    /\ vgg16' = FreezeFeatures(vgg16)
    /\ pc' = "classifier"
    /\ UNCHANGED <<storeVars, optimizer, loopVars>>

NewClassifier ==
    /\ pc = "classifier"
    /\ vgg16' = ReplaceClassifier(vgg16)
    /\ pc' = "model_to_device"
    /\ UNCHANGED <<storeVars, optimizer, loopVars>>

\* vgg16 = vgg16.to(device): the same parameters, moved in place
ModelToDevice ==
    /\ pc = "model_to_device"
    /\ pc' = "optimizer"
    /\ UNCHANGED <<storeVars, vgg16, optimizer, loopVars>>

\* criterion = nn.CrossEntropyLoss(); optimizer = optim.Adam(...)
MakeOptimizer ==
    /\ pc = "optimizer"
    /\ optimizer' = Adam({"classifier"})
    /\ pc' = "for_epoch"
    /\ UNCHANGED <<storeVars, vgg16, loopVars>>

\* for epoch in range(epochs):
ForEpoch ==
    /\ pc = "for_epoch"
    /\ IF epoch + 1 < epochs
       THEN /\ epoch' = epoch + 1
            /\ optSteps' = 0
            /\ lossAdds' = 0
            /\ pc' = "reset"
       ELSE /\ pc' = "done"
            /\ UNCHANGED <<epoch, optSteps, lossAdds>>
    /\ UNCHANGED <<storeVars, vgg16, optimizer, total_epoch_loss, outputs, loss,
                   avg_loss, reports, ops, getTotal, evalVars>>

\* total_epoch_loss = 0
ResetLoss ==
    /\ pc = "reset"
    /\ total_epoch_loss' = 0
    /\ pc' = "iter"
    /\ UNCHANGED <<storeVars, vgg16, optimizer, epoch, outputs, loss, avg_loss,
                   reports, ops, optSteps, getTotal, lossAdds, evalVars>>

\* for batch_features, batch_labels in train_loader: the pass starts
ForBatchIter ==
    /\ pc = "iter"
    /\ StartPass
    /\ pc' = "next"
    /\ UNCHANGED <<vgg16, optimizer, loopVars>>

\* for batch_features, batch_labels in train_loader: the next batch, or the
\* end of the inner loop
ForBatchNext ==
    /\ pc = "next"
    /\ DataLoader__next__
    /\ pc' = IF ret'.tag = "batch" THEN "to_device"
             ELSE IF ret'.exc = "StopIteration" THEN "avg" ELSE "error"
    /\ ops' = <<>>
    /\ getTotal' = [i \in DOMAIN getTotal |->
                      getTotal[i] + (getCount'[i] - getCount[i])]
    /\ UNCHANGED <<vgg16, optimizer, epoch, total_epoch_loss, outputs, loss,
                   avg_loss, reports, optSteps, lossAdds, evalVars>>

\* batch_features, batch_labels = batch_features.to(device), batch_labels.to(device)
ToDevice ==
    /\ pc = "to_device"
    /\ pc' = "forward"
    /\ UNCHANGED <<storeVars, vgg16, optimizer, loopVars>>

\* outputs = vgg16(batch_features)
ForwardPass ==
    /\ pc = "forward"
    /\ outputs' = Forward(vgg16, ret.features)
    /\ ops' = Append(ops, "forward")
    /\ pc' = "loss"
    /\ UNCHANGED <<storeVars, vgg16, optimizer, epoch, total_epoch_loss, loss,
                   avg_loss, reports, optSteps, getTotal, lossAdds, evalVars>>

\* loss = criterion(outputs, batch_labels)
ComputeLoss ==
    /\ pc = "loss"
    /\ \E item \in LossItems : loss' = CrossEntropyLoss(outputs, ret.labels, item)
    /\ ops' = Append(ops, "loss")
    /\ pc' = "zero_grad"
    /\ UNCHANGED <<storeVars, vgg16, optimizer, epoch, total_epoch_loss, outputs,
                   avg_loss, reports, optSteps, getTotal, lossAdds, evalVars>>

\* optimizer.zero_grad()
ZeroGradStep ==
    /\ pc = "zero_grad"
    /\ vgg16' = ZeroGrad(optimizer, vgg16)
    /\ ops' = Append(ops, "zero_grad")
    /\ pc' = "backward"
    /\ UNCHANGED <<storeVars, optimizer, epoch, total_epoch_loss, outputs, loss,
                   avg_loss, reports, optSteps, getTotal, lossAdds, evalVars>>

\* loss.backward()
BackwardPass ==
    /\ pc = "backward"
    /\ vgg16' = Backward(loss, vgg16)
    /\ ops' = Append(ops, "backward")
    /\ pc' = "step"
    /\ UNCHANGED <<storeVars, optimizer, epoch, total_epoch_loss, outputs, loss,
                   avg_loss, reports, optSteps, getTotal, lossAdds, evalVars>>

\* a loop body that takes two optimizer steps per batch
StepTwice ==
    /\ pc = "step"
    /\ vgg16' = OptimizerStep(optimizer, OptimizerStep(optimizer, vgg16))
    /\ ops' = ops \o <<"step", "step">>
    /\ optSteps' = optSteps + 2
    /\ pc' = "accumulate"
    /\ UNCHANGED <<storeVars, optimizer, epoch, total_epoch_loss, outputs, loss,
                   avg_loss, reports, getTotal, lossAdds, evalVars>>

\* optimizer.step()
Step ==
    /\ pc = "step"
    /\ vgg16' = OptimizerStep(optimizer, vgg16)
    /\ ops' = Append(ops, "step")
    /\ optSteps' = optSteps + 1
    /\ pc' = "accumulate"
    /\ UNCHANGED <<storeVars, optimizer, epoch, total_epoch_loss, outputs, loss,
                   avg_loss, reports, getTotal, lossAdds, evalVars>>

\* total_epoch_loss = total_epoch_loss + loss.item()
Accumulate ==
    /\ pc = "accumulate"
    /\ total_epoch_loss' = total_epoch_loss + loss.item
    /\ lossAdds' = lossAdds + 1
    /\ pc' = "next"
    /\ UNCHANGED <<storeVars, vgg16, optimizer, epoch, outputs, loss, avg_loss,
                   reports, ops, optSteps, getTotal, evalVars>>

\* avg_loss = total_epoch_loss/len(train_loader); a loader without batches
\* makes the division fail
Average ==
    /\ pc = "avg"
    /\ LET batches_per_pass == DataLoader__len__(dataset, dataloader) IN
       IF batches_per_pass = 0
       THEN /\ pc' = "error"
            /\ UNCHANGED avg_loss
       ELSE /\ avg_loss' = [state |-> "value", num |-> total_epoch_loss,
                            den |-> batches_per_pass]
            /\ pc' = "print"
    /\ UNCHANGED <<storeVars, vgg16, optimizer, epoch, total_epoch_loss, outputs,
                   loss, reports, ops, optSteps, getTotal, lossAdds, evalVars>>

\* print(f'Epoch: {epoch + 1} , Loss: {avg_loss}')
PrintReport ==
    /\ pc = "print"
    /\ reports' = Append(reports, epoch + 1)
    /\ pc' = "for_epoch"
    /\ UNCHANGED <<storeVars, vgg16, optimizer, epoch, total_epoch_loss, outputs,
                   loss, avg_loss, ops, optSteps, getTotal, lossAdds, evalVars>>

NextTrain ==
    \/ TrainLoader \/ LoadModel \/ Freeze \/ NewClassifier \/ ModelToDevice
    \/ MakeOptimizer
    \/ ForEpoch \/ ResetLoss \/ ForBatchIter \/ ForBatchNext \/ ToDevice
    \/ ForwardPass \/ ComputeLoss \/ ZeroGradStep \/ BackwardPass \/ Step
    \/ Accumulate \/ Average \/ PrintReport

SpecTrain == InitTrain /\ [][NextTrain]_vars

----------------------------------------------------------------------------
(* The evaluation cells of the transfer-learning notebook: vgg16.eval() and *)
(* the loop over test_dataloader.  Here the store is test_dataset and the   *)
(* loader is test_dataloader.                                               *)

\* nn.Module.eval(): the module and its children leave training mode
Module__eval(self) == [self EXCEPT !.training = FALSE]

\* torch.max(outputs, 1)[1]: per row the column of the largest score.  The
\* scores are not computed; each row is left open between the class of its
\* label and one other class.
torch_max(out, batch_labels) ==
    { [k \in 1..out.rows |->
          IF k \in wrong THEN (batch_labels[k] + 1) % out.cols ELSE batch_labels[k]]
      : wrong \in SUBSET (1..out.rows) }

\* (predicted == batch_labels).sum().item()
SumEqual(p, batch_labels) ==
    Cardinality({k \in 1..Len(batch_labels) : p[k] = batch_labels[k]})

\* the network after one training batch (the loop body, lines 887 to 897)
TrainBatch(opt, model) ==
    LET l == CrossEntropyLoss(Forward(model, <<>>), <<>>, 0) IN
    OptimizerStep(opt, Backward(l, ZeroGrad(opt, model)))

\* The notebook when the cell vgg16.eval() is about to run: test_dataset and
\* test_dataloader have been built, the network has been set up and trained
\* for epochs passes of k batches (with losses 0, the last batch of one
\* sample), and nothing has been asked of the test loader yet.
InitEval ==
    /\ grad_enabled = TRUE
    /\ \E n \in Sizes, s \in Seeds :
         /\ X = FlatX(s, n)
         /\ y = FlatY(s, n)
         /\ dataset = CustomDataset__init__(X, y, custom_transform)
    /\ \E b \in 1..MaxB : dataloader = DataLoader__init__(dataset, b, TRUE)
    /\ dataloader.state = "ready"
    /\ itState = "none"
    /\ order = <<>>
    /\ pos = 0
    /\ batches = <<>>
    /\ getCount = [i \in 0..(Len(X) - 1) |-> 0]
    /\ passNo = 0
    /\ redrawn = FALSE
    /\ ret = [call |-> "DataLoader", tag |-> "loader"]
    /\ tlog = <<>>
    /\ lenCount = 0
    /\ optimizer = Adam({"classifier"})
    /\ \E k \in 1..MaxN :
         \* every further batch repeats the step of the first
         /\ vgg16 = [TrainBatch(optimizer,
                                ReplaceClassifier(FreezeFeatures(models_vgg16)))
                        EXCEPT !.classifier.value.updates = epochs * k]
         /\ avg_loss = [state |-> "value", num |-> 0, den |-> k]
         /\ optSteps = k
         /\ lossAdds = k
    /\ outputs = [Forward(vgg16, <<>>) EXCEPT !.rows = 1]
    /\ loss = CrossEntropyLoss(outputs, <<>>, 0)
    /\ epoch = epochs - 1
    /\ total_epoch_loss = 0
    /\ reports = [j \in 1..epochs |-> j]
    /\ ops = <<"forward", "loss", "zero_grad", "backward", "step">>
    /\ getTotal = [i \in 0..(Len(X) - 1) |-> 0]
    /\ total = -1
    /\ correct = -1
    /\ predicted = <<>>
    /\ accuracy = [state |-> "none"]
    /\ pc = "eval_mode"

trainLoopVars == <<optimizer, epoch, total_epoch_loss, loss, avg_loss, reports,
                   ops, optSteps, getTotal, lossAdds>>

\* vgg16.eval()
EvalMode ==
    /\ pc = "eval_mode"
    /\ vgg16' = Module__eval(vgg16)
    /\ pc' = "eval_init"
    /\ UNCHANGED <<storeVars, trainLoopVars, outputs, evalVars>>

\* total = 0; correct = 0
EvalInit ==
    /\ pc = "eval_init"
    /\ total' = 0
    /\ correct' = 0
    /\ pc' = "no_grad"
    /\ UNCHANGED <<storeVars, trainLoopVars, vgg16, outputs, predicted,
                   grad_enabled, accuracy>>

\* with torch.no_grad(): gradient mode is switched off for the block
NoGradEnter ==
    /\ pc = "no_grad"
    /\ grad_enabled' = FALSE
    /\ pc' = "eval_iter"
    /\ UNCHANGED <<storeVars, trainLoopVars, vgg16, outputs, total, correct,
                   predicted, accuracy>>

\* for batch_features, batch_labels in test_dataloader: the pass starts
EvalIter ==
    /\ pc = "eval_iter"
    /\ StartPass
    /\ pc' = "eval_next"
    /\ UNCHANGED <<trainLoopVars, vgg16, outputs, evalVars>>

\* for batch_features, batch_labels in test_dataloader: the next batch, or
\* the end of the loop; an exception leaves the with block, too
EvalNext ==
    /\ pc = "eval_next"
    /\ DataLoader__next__
    /\ pc' = IF ret'.tag = "batch" THEN "eval_to_device"
             ELSE IF ret'.exc = "StopIteration" THEN "no_grad_exit" ELSE "error"
    /\ grad_enabled' = IF pc' = "error" THEN TRUE ELSE grad_enabled
    /\ UNCHANGED <<trainLoopVars, vgg16, outputs, total, correct, predicted,
                   accuracy>>

\* batch_features = batch_features.to(device); batch_labels = batch_labels.to(device)
EvalToDevice ==
    /\ pc = "eval_to_device"
    /\ pc' = "eval_forward"
    /\ UNCHANGED <<storeVars, trainLoopVars, vgg16, outputs, evalVars>>

\* an evaluation that keeps fine-tuning: forward and an optimizer step
EvalForwardTuning ==
    /\ pc = "eval_forward"
    /\ outputs' = Forward(vgg16, ret.features)
    /\ vgg16' = OptimizerStep(optimizer, vgg16)
    /\ pc' = "eval_predict"
    /\ UNCHANGED <<storeVars, trainLoopVars, evalVars>>

\* outputs = vgg16(batch_features)
EvalForward ==
    /\ pc = "eval_forward"
    /\ outputs' = Forward(vgg16, ret.features)
    /\ pc' = "eval_predict"
    /\ UNCHANGED <<storeVars, trainLoopVars, vgg16, evalVars>>

\* _, predicted = torch.max(outputs, 1)
EvalPredict ==
    /\ pc = "eval_predict"
    /\ \E p \in torch_max(outputs, ret.labels) : predicted' = p
    /\ pc' = "eval_total"
    /\ UNCHANGED <<storeVars, trainLoopVars, vgg16, outputs, total, correct,
                   grad_enabled, accuracy>>

\* a count that takes every batch for a full one
EvalTotalFull ==
    /\ pc = "eval_total"
    /\ total' = total + dataloader.batch_size
    /\ pc' = "eval_correct"
    /\ UNCHANGED <<storeVars, trainLoopVars, vgg16, outputs, correct, predicted,
                   grad_enabled, accuracy>>

\* total += batch_labels.shape[0]
EvalTotal ==
    /\ pc = "eval_total"
    /\ total' = total + Len(ret.labels)
    /\ pc' = "eval_correct"
    /\ UNCHANGED <<storeVars, trainLoopVars, vgg16, outputs, correct, predicted,
                   grad_enabled, accuracy>>

\* correct += (predicted == batch_labels).sum().item()
EvalCorrect ==
    /\ pc = "eval_correct"
    /\ correct' = correct + SumEqual(predicted, ret.labels)
    /\ pc' = "eval_next"
    /\ UNCHANGED <<storeVars, trainLoopVars, vgg16, outputs, total, predicted,
                   grad_enabled, accuracy>>

\* the end of the with block: gradient mode is what it was before
NoGradExit ==
    /\ pc = "no_grad_exit"
    /\ grad_enabled' = TRUE
    /\ pc' = "print_accuracy"
    /\ UNCHANGED <<storeVars, trainLoopVars, vgg16, outputs, total, correct,
                   predicted, accuracy>>

\* print(correct/total); without a sample counted the division fails
PrintAccuracy ==
    /\ pc = "print_accuracy"
    /\ IF total = 0
       THEN /\ pc' = "error"
            /\ UNCHANGED accuracy
       ELSE /\ accuracy' = [state |-> "value", num |-> correct, den |-> total]
            /\ pc' = "eval_done"
    /\ UNCHANGED <<storeVars, trainLoopVars, vgg16, outputs, total, correct,
                   predicted, grad_enabled>>

NextEval ==
    \/ EvalMode \/ EvalInit \/ NoGradEnter \/ EvalIter \/ EvalNext
    \/ EvalToDevice \/ EvalForward \/ EvalPredict \/ EvalTotal \/ EvalCorrect
    \/ NoGradExit \/ PrintAccuracy

SpecEval == InitEval /\ [][NextEval]_vars

----------------------------------------------------------------------------

(* Properties *)

InputLen == Len(X)
BatchSize == dataloader.batch_size
LoaderReady == dataloader.state = "ready"
PassStarted == itState # "none"

\* the feature the store has to return for the raw input feature raw
ExpectedFeature(kind, raw) ==
    IF kind = "memory" THEN raw
    ELSE Compose(custom_transform,
                 FromArray(Stack3(AsUint8(Reshape(raw, ImgSide, ImgSide).val))))

Identity0(n) == [i \in 1..n |-> i - 1]
CeilDiv(n, b) == (n + b - 1) \div b
NoDuplicates(q) == \A i, j \in 1..Len(q) : q[i] = q[j] => i = j
Range(q) == {q[i] : i \in 1..Len(q)}

\* C1: dataset[i] with 0 <= i < size returns a pair, its label is the i-th
\* input label and its feature is the transform of the i-th input feature
\* (the input feature itself for the in-memory store).
C1_GetReturnsPosition ==
    (ret.call = "getitem" /\ 0 <= ret.idx /\ ret.idx < InputLen) =>
        /\ ret.tag = "item"
        /\ ret.label = y[ret.idx + 1]
        /\ ret.feature = ExpectedFeature(dataset.kind, X[ret.idx + 1])

C1_Witness ==
    /\ ret.call = "getitem" /\ ret.tag = "item" /\ ret.idx = 1
    /\ dataset.kind = "flat"
    /\ X[1] # X[2] /\ y[1] # y[2]

\* C2: the size of the store is the length of the input it was built from,
\* in every reachable state, and every len(dataset) call returns that value.
C2_SizeIsInputLength ==
    /\ len(dataset) = InputLen
    /\ ret.call = "len" => ret.val = InputLen

C2_Witness ==
    /\ ret.call = "len" /\ ret.val = 3
    /\ passNo = 2 /\ itState = "active" /\ pos > 0 /\ pos < InputLen

\* C3: without shuffling the k-th batch of a pass holds the indices
\* (k-1)*b .. min(k*b, n)-1 in increasing order, and the batches of a complete
\* pass concatenate to 0 .. n-1.
C3_IdentityOrder ==
    (LoaderReady /\ ~dataloader.shuffle /\ PassStarted) =>
        /\ \A k \in 1..Len(batches) :
             batches[k] = [j \in 1..(Min(k * BatchSize, InputLen) - (k - 1) * BatchSize)
                              |-> (k - 1) * BatchSize + j - 1]
        /\ itState = "exhausted" => Concat(batches) = Identity0(InputLen)

C3_Witness ==
    /\ LoaderReady /\ ~dataloader.shuffle /\ itState = "exhausted"
    /\ InputLen = 3 /\ BatchSize = 2
    /\ batches = << <<0, 1>>, <<2>> >>

\* C4: for a store of n >= 1 samples a pass yields ceil(n/b) batches, every
\* batch but the last of b samples, the last of n mod b samples (b if that is
\* zero); no batch is empty or larger than b.
C4_BatchSizes ==
    (LoaderReady /\ PassStarted /\ InputLen >= 1) =>
        /\ \A k \in 1..Len(batches) :
             Len(batches[k]) >= 1 /\ Len(batches[k]) <= BatchSize
        /\ \A k \in 1..(Len(batches) - 1) : Len(batches[k]) = BatchSize
        /\ Len(batches) <= CeilDiv(InputLen, BatchSize)
        /\ ret.tag = "batch" => Len(ret.features) = Len(batches[Len(batches)])
        /\ itState = "exhausted" =>
             /\ Len(batches) = CeilDiv(InputLen, BatchSize)
             /\ Len(batches[Len(batches)]) =
                  IF InputLen % BatchSize # 0 THEN InputLen % BatchSize
                  ELSE BatchSize

C4_Witness ==
    /\ LoaderReady /\ dataloader.shuffle /\ itState = "exhausted"
    /\ InputLen = 3 /\ BatchSize = 2
    /\ Len(batches) = 2 /\ Len(batches[1]) = 2 /\ Len(batches[2]) = 1

\* C5: with shuffling no index occurs twice among the batches of a pass, and
\* the batches of a complete pass hold every index 0 .. n-1 exactly once, in
\* the first pass and in every later one.
C5_ShuffledPassIsBijection ==
    (LoaderReady /\ dataloader.shuffle /\ PassStarted) =>
        /\ NoDuplicates(Concat(batches))
        /\ Range(Concat(batches)) \subseteq 0..(InputLen - 1)
        /\ itState = "exhausted" =>
             /\ Len(Concat(batches)) = InputLen
             /\ Range(Concat(batches)) = 0..(InputLen - 1)

C5_Witness ==
    /\ LoaderReady /\ dataloader.shuffle /\ itState = "exhausted"
    /\ passNo = 2 /\ InputLen = 3
    /\ Concat(batches) = <<2, 0, 1>>

\* C6 as stated: on a non-empty store dataset[i] raises an out-of-range
\* error for every i outside 0 <= i < size, dataset[-1] included.
C6_OutOfRangeFails ==
    (ret.call = "getitem" /\ InputLen >= 1
       /\ ~(0 <= ret.idx /\ ret.idx < InputLen)) =>
        ret.tag = "error" /\ ret.exc = "IndexError"

\* C6 amended: on a non-empty store dataset[i] raises IndexError for every
\* i >= size and every i < -size; for -size <= i < 0 it returns the pair of
\* position size + i, so dataset[-1] is the last pair.
C6_OutOfRangeFailsNegativeWraps ==
    (ret.call = "getitem" /\ InputLen >= 1) =>
        /\ (ret.idx >= InputLen \/ ret.idx < -InputLen) =>
             ret.tag = "error" /\ ret.exc = "IndexError"
        /\ (-InputLen <= ret.idx /\ ret.idx < 0) =>
             /\ ret.tag = "item"
             /\ ret.label = y[InputLen + ret.idx + 1]
             /\ ret.feature =
                  ExpectedFeature(dataset.kind, X[InputLen + ret.idx + 1])

C6_Witness ==
    /\ ret.call = "getitem" /\ InputLen = 3
    /\ ret.idx = InputLen /\ ret.tag = "error" /\ ret.exc = "IndexError"

NothingFetched ==
    /\ itState = "none" /\ passNo = 0 /\ batches = <<>>
    /\ \A i \in DOMAIN getCount : getCount[i] = 0

\* C7 as stated: constructing the batch iterator with a batch size <= 0 or
\* over a store of size 0 fails, and then no batch is produced and no sample
\* fetched.
C7_BadConfigurationFails ==
    (dataloader.state # "none" /\ (BatchSize <= 0 \/ InputLen = 0)) =>
        dataloader.state = "error" /\ NothingFetched

\* C7 amended: construction fails with a ValueError when the batch size is
\* <= 0, or when the store has size 0 and shuffling is enabled; then no batch
\* is produced and no sample fetched.  Without shuffling an empty store is
\* accepted (with a positive batch size), and its passes end without a batch.
C7_BadConfigurationFailsUnlessUnshuffledEmpty ==
    /\ (dataloader.state # "none"
          /\ (BatchSize <= 0 \/ (InputLen = 0 /\ dataloader.shuffle))) =>
        /\ dataloader.state = "error" /\ dataloader.exc = "ValueError"
        /\ NothingFetched
    /\ (dataloader.state # "none" /\ BatchSize >= 1
          /\ InputLen = 0 /\ ~dataloader.shuffle) =>
        /\ dataloader.state = "ready"
        /\ batches = <<>>
        /\ ret.call = "next" => ret.tag = "error" /\ ret.exc = "StopIteration"
    /\ ret.call = "DataLoader" =>
        (ret.tag = "error" <=> dataloader.state = "error")

C7_Witness ==
    /\ dataloader.state = "error" /\ BatchSize = 0 /\ InputLen = 3
    /\ ret.call = "getitem"

\* C8: while passes may be started, a new pass can be started in every state
\* of a constructed iterator; with shuffling every permutation of 0 .. n-1
\* can be the order of the new pass, whatever the order of the pass before;
\* and every complete pass has fetched every index.
C8_RestartDrawsAfresh ==
    /\ (LoaderReady /\ passNo < MaxPasses) =>
        /\ ENABLED Iter
        /\ dataloader.shuffle =>
             \A p \in {q \in [1..InputLen -> 0..(InputLen - 1)] : NoDuplicates(q)} :
                ENABLED (Iter /\ order' = p)
    /\ (LoaderReady /\ itState = "exhausted") =>
        Range(Concat(batches)) = 0..(InputLen - 1)

C8_Witness ==
    /\ LoaderReady /\ dataloader.shuffle /\ InputLen = 3
    /\ passNo = 2 /\ redrawn /\ itState = "exhausted"

\* C9: a batch is two stacks of the length of its index group; position k of
\* the features is the feature of dataset[i_k] and position k of the labels
\* the label of dataset[i_k], i_k being the k-th index of the group.
C9_BatchAligned ==
    ret.tag = "batch" =>
        LET group == batches[Len(batches)] IN
        /\ Len(ret.features) = Len(group)
        /\ Len(ret.labels) = Len(group)
        /\ \A k \in 1..Len(group) :
             /\ ret.features[k] = getitem(dataset, group[k]).feature
             /\ ret.labels[k] = getitem(dataset, group[k]).label
             /\ ret.features[k] = ExpectedFeature(dataset.kind, X[group[k] + 1])
             /\ ret.labels[k] = y[group[k] + 1]

C9_Witness ==
    /\ ret.tag = "batch" /\ dataloader.shuffle
    /\ Len(ret.labels) = 2 /\ ret.labels[1] # ret.labels[2]
    /\ batches[Len(batches)] = <<2, 0>>

\* C10: the features and the labels of the store have the same length in
\* every reachable state, and dataset[i] succeeds for every 0 <= i < size.
C10_FeaturesAndLabelsSameLength ==
    /\ Len(dataset.features) = Len(dataset.labels)
    /\ \A i \in 0..(len(dataset) - 1) : getitem(dataset, i).tag = "item"

C10_Witness ==
    /\ Len(dataset.features) = 3 /\ Len(dataset.labels) = 3
    /\ passNo = 2 /\ itState = "exhausted"
    /\ ret.call = "getitem" /\ ret.idx = 2 /\ ret.tag = "item"

\* C11: dataset[i] and len(dataset) have no side effect on the store: across
\* every call, successful or failing, made by a cell or by the batch iterator,
\* the stored features, labels and transform stay exactly what they were.
C11_CallsLeaveStoreAlone ==
    [][ret'.call \in {"getitem", "len", "next"} => dataset' = dataset]_vars

C11_Witness ==
    /\ ret.call = "getitem" /\ ret.tag = "error"
    /\ passNo >= 1 /\ Len(batches) >= 1
    /\ dataset = CustomDataset__init__(X, y, custom_transform)
    /\ InputLen >= 2

\* the answer of dataset[idx] as a function of the input arrays and idx alone
AnswerOf(idx) ==
    LET n == InputLen
        j == IF idx < 0 THEN idx + n ELSE idx
    IN  IF -n <= idx /\ idx < n
        THEN [tag |-> "item", feature |-> ExpectedFeature(dataset.kind, X[j + 1]),
              label |-> y[j + 1]]
        ELSE [tag |-> "error", exc |-> "IndexError"]

\* C12: dataset[i] is deterministic: the input arrays never change, and every
\* answer, of a cell's call or of a fetch for a batch, is the one the input
\* arrays and i determine, whatever calls and passes came before it; so two
\* calls with the same i return equal pairs.
C12_GetIsDeterministic ==
    /\ [][X' = X /\ y' = y]_vars
    /\ [](/\ ret.call = "getitem" =>
               /\ ret.tag = AnswerOf(ret.idx).tag
               /\ ret.tag = "item" =>
                    /\ ret.feature = AnswerOf(ret.idx).feature
                    /\ ret.label = AnswerOf(ret.idx).label
          /\ ret.tag = "batch" =>
               LET group == batches[Len(batches)] IN
               \A k \in 1..Len(group) :
                   /\ ret.features[k] = AnswerOf(group[k]).feature
                   /\ ret.labels[k] = AnswerOf(group[k]).label)

C12_Witness ==
    /\ ret.call = "getitem" /\ ret.tag = "item" /\ ret.idx = 1
    /\ passNo = 2 /\ itState = "active" /\ Len(batches) >= 1
    /\ batches[1][1] = 1
    /\ dataset.kind = "flat" /\ X[1] # X[2]

\* the indices the next request of the running pass has to fetch
NextGroup == BatchSampler__next__(order, pos, BatchSize)
Fails(idx) == getitem(dataset, idx).tag = "error"
FetchFailed == ret.call = "next" /\ ret.tag = "error" /\ ret.exc # "StopIteration"

\* C13: a retrieval failure is fatal where it occurs.  A request whose group
\* holds a failing index ends the pass with that index's error: no batch is
\* yielded, the position does not move past the sample (it is not skipped),
\* the failing index is fetched once (no retry) and nothing behind it is
\* fetched; a failed pass yields and fetches nothing more, and no yielded
\* batch ever holds a failing index.
C13_FailureIsFatal ==
    /\ [][(/\ itState = "active" /\ passNo' = passNo /\ ret'.call = "next"
           /\ \E k \in 1..Len(NextGroup) : Fails(NextGroup[k]))
          => LET k0 == CHOOSE k \in 1..Len(NextGroup) :
                          /\ Fails(NextGroup[k])
                          /\ \A j \in 1..(k - 1) : ~Fails(NextGroup[j])
             IN  /\ itState' = "failed"
                 /\ ret'.tag = "error"
                 /\ ret'.exc = getitem(dataset, NextGroup[k0]).exc
                 /\ batches' = batches /\ pos' = pos
                 /\ getCount'[NextGroup[k0]] = getCount[NextGroup[k0]] + 1
                 /\ \A j \in (k0 + 1)..Len(NextGroup) :
                        getCount'[NextGroup[j]] = getCount[NextGroup[j]]]_vars
    /\ [][(itState = "failed" /\ passNo' = passNo)
          => (itState' = "failed" /\ batches' = batches /\ pos' = pos
              /\ getCount' = getCount)]_vars
    /\ [](\A g \in 1..Len(batches) : \A k \in 1..Len(batches[g]) :
              ~Fails(batches[g][k]))

C13_Witness ==
    /\ itState = "failed" /\ FetchFailed /\ ret.exc = "ValueError"
    /\ InputLen = 3 /\ BatchSize = 2 /\ dataloader.shuffle
    /\ order = <<2, 0, 1>>
    /\ getCount[2] = 1 /\ getCount[0] = 0 /\ getCount[1] = 0
    /\ batches = <<>> /\ pos = 0

\* C14: every pass terminates.  Each yielded batch moves the position forward
\* by at least one index and never past the end of the order, so a pass yields
\* at most size batches; a pass whose caller keeps requesting reaches the
\* exhausted state; an exhausted pass stays exhausted and yields nothing more.
C14_PassTerminates ==
    /\ [][(ret'.call = "next" /\ ret'.tag = "batch" /\ passNo' = passNo)
          => (pos < pos' /\ pos' <= Len(order)
              /\ Len(batches') = Len(batches) + 1)]_vars
    /\ [](Len(batches) <= InputLen /\ pos <= Len(order))
    /\ [][(itState = "exhausted" /\ passNo' = passNo)
          => (itState' = "exhausted" /\ batches' = batches /\ pos' = pos)]_vars
    /\ (itState = "active") ~> (itState = "exhausted")

C14_Witness ==
    /\ itState = "exhausted" /\ passNo = 2
    /\ InputLen = 3 /\ BatchSize = 2 /\ Len(batches) = 2
    /\ ret.call = "getitem"

\* the indices handed to the caller so far in the running pass
Yielded == Range(Concat(batches))
BatchYielded == ret'.call = "next" /\ ret'.tag = "batch" /\ passNo' = passNo

\* C17: batches are produced on demand and whole.  The request that yields a
\* batch fetches every index of its group, each once, and no other index; so
\* at every moment of a pass the fetched indices are exactly the indices of
\* the batches already handed over: nothing of batch k+1 is fetched before
\* batch k is with the caller.
C17_OnDemandAndWhole ==
    /\ [][BatchYielded =>
            LET group == batches'[Len(batches')] IN
            /\ batches' = Append(batches, group)
            /\ \A i \in DOMAIN getCount :
                 getCount'[i] = getCount[i] + Occurrences(group, Len(group), i)
            /\ \A k \in 1..Len(group) : getCount[group[k]] = 0]_vars
    /\ [](PassStarted =>
            \A i \in DOMAIN getCount : (getCount[i] > 0) <=> (i \in Yielded))

C17_Witness ==
    /\ itState = "active" /\ ret.call = "next" /\ ret.tag = "batch"
    /\ InputLen = 3 /\ BatchSize = 2 /\ dataloader.shuffle
    /\ batches = << <<1, 2>> >>
    /\ getCount[1] = 1 /\ getCount[2] = 1 /\ getCount[0] = 0

\* C19: the order of a pass belongs to the iterator: it is a permutation of
\* the positions fixed when the pass starts and it stays the same until the
\* next pass starts, across every request, every dataset[i] and len(dataset)
\* call made meanwhile; and no step of the iteration changes the features or
\* labels of the store or the input arrays.
C19_OrderFixedDuringPass ==
    /\ [][passNo' = passNo => order' = order]_vars
    /\ [][passNo' # passNo =>
            order' \in PassOrders(dataset, dataloader.shuffle)]_vars
    /\ [][/\ dataset'.features = dataset.features
          /\ dataset'.labels = dataset.labels
          /\ X' = X /\ y' = y]_vars
    /\ [](dataset.features = X /\ dataset.labels = y)

C19_Witness ==
    /\ itState = "active" /\ ret.call = "len"
    /\ InputLen = 3 /\ BatchSize = 1 /\ dataloader.shuffle
    /\ order = <<2, 0, 1>> /\ batches = << <<2>>, <<0>> >>
    /\ dataset.kind = "flat"

\* the image of the sample at Python index idx once it is reshaped to
\* ImgSide x ImgSide, converted to bytes and widened to three channels
WidenedImage(idx) ==
    LET j == IF idx < 0 THEN idx + InputLen ELSE idx IN
    [type |-> "PIL", mode |-> "RGB", h |-> ImgSide, w |-> ImgSide,
     px |-> [r \in 1..ImgSide |-> [c \in 1..ImgSide |->
               [ch \in 1..NumChannels |->
                   X[j + 1][(r - 1) * ImgSide + c] % Uint8Mod]]]]

\* C18: the transform runs at retrieval, never at construction.  Building the
\* store, building the loader, starting a pass and len(dataset) hand nothing
\* to the transform; a successful dataset[i] hands it exactly one image, the
\* reshaped and three-channel image of sample i, and returns its result; a
\* failing dataset[i] hands it nothing; a batch handed it one image per index
\* of its group, in group order.  The in-memory store has no transform.
C18_TransformAtRetrieval ==
    /\ ret.call \in {"none", "len", "DataLoader", "iter"} => tlog = <<>>
    /\ dataset.kind = "memory" => tlog = <<>>
    /\ (dataset.kind = "flat" /\ ret.call = "getitem") =>
          IF ret.tag = "item"
          THEN /\ tlog = << WidenedImage(ret.idx) >>
               /\ ret.feature = Compose(dataset.transform, tlog[1])
          ELSE tlog = <<>>
    /\ (dataset.kind = "flat" /\ ret.tag = "batch") =>
          LET group == batches[Len(batches)] IN
          /\ tlog = [k \in 1..Len(group) |-> WidenedImage(group[k])]
          /\ \A k \in 1..Len(group) :
                ret.features[k] = Compose(dataset.transform, tlog[k])

C18_Witness ==
    /\ dataset.kind = "flat" /\ ret.call = "getitem" /\ ret.tag = "item"
    /\ ret.idx = 1 /\ Len(tlog) = 1 /\ tlog[1].px[1][1] = <<X[2][1], X[2][1], X[2][1]>>
    /\ X[1] # X[2] /\ passNo = 0

ModelLoaded == vgg16.state = "model"
AfterFreeze == ModelLoaded /\ pc # "freeze"
AfterReplacement == ModelLoaded /\ pc \notin {"freeze", "classifier"}
BatchesPerPass == CeilDiv(InputLen, BatchSize)

\* C15: the feature stage is frozen and the classifier replaced.  From the
\* freeze step on, through every training step of every epoch, the feature
\* parameters require no gradient, receive none and keep their pretrained
\* values; from the replacement on the head is the new one, ending in a layer
\* with 10 outputs; the optimizer holds the classifier's parameters only, and
\* each of its steps updates the classifier once and nothing else.
C15_FeaturesFrozen ==
    /\ [](AfterFreeze =>
            /\ vgg16.features.requires_grad = FALSE
            /\ vgg16.features.grad = "None"
            /\ vgg16.features.value = [origin |-> "pretrained", updates |-> 0])
    /\ [](AfterReplacement =>
            /\ vgg16.layers[Len(vgg16.layers)] = [op |-> "Linear", in |-> 512, out |-> 10]
            /\ vgg16.classifier.value.origin = "initial"
            /\ epoch >= 0 =>
                 vgg16.classifier.value.updates = epoch * BatchesPerPass + optSteps)
    /\ [](optimizer.state = "optimizer" => optimizer.params = {"classifier"})
    /\ [][(pc = "step" /\ pc' # pc) =>
            /\ vgg16'.features = vgg16.features
            /\ vgg16'.layers = vgg16.layers
            /\ vgg16'.classifier.value.updates = vgg16.classifier.value.updates + 1]_vars

C15_Witness ==
    /\ pc = "done" /\ epoch = epochs - 1
    /\ InputLen = 3 /\ BatchSize = 2
    /\ vgg16.classifier.value.updates = 2 * epochs
    /\ vgg16.features.value.updates = 0

Positions == 0..(InputLen - 1)
PassComplete == itState = "exhausted"

\* the calls of a complete pass, and of all passes so far, on every position
OneGetPerIndex ==
    /\ PassComplete =>
         \A i \in Positions : getCount[i] = 1 /\ getTotal[i] = passNo
    /\ itState = "active" =>
         \A i \in Positions : getCount[i] <= 1 /\ getTotal[i] = passNo - 1 + getCount[i]
    /\ pc = "done" => \A i \in Positions : getTotal[i] = epochs

\* C16 as stated: a complete pass has queried the size of the store exactly
\* once and has called dataset[i] exactly once for every position; after k
\* complete passes every position has been fetched k times.
C16_OncePerPass ==
    /\ PassComplete => lenCount = 1
    /\ OneGetPerIndex

\* C16, amended: the size of the store is read by the sampler, once in a pass
\* without shuffling and three times in a complete pass with shuffling (twice
\* when the permutation is drawn, once when it is used up); dataset[i] is
\* called exactly once per position in every pass, and k times after k
\* complete passes.
C16_OneGetPerIndexPerPass ==
    /\ PassComplete => lenCount = (IF dataloader.shuffle THEN 3 ELSE 1)
    /\ (itState = "active" /\ dataloader.shuffle) => lenCount \in {2, 3}
    /\ (itState = "active" /\ ~dataloader.shuffle) => lenCount = 1
    /\ OneGetPerIndex

C16_Witness ==
    /\ pc = "done" /\ PassComplete /\ passNo = epochs
    /\ dataloader.shuffle /\ InputLen = 3 /\ BatchSize = 2
    /\ lenCount = 3
    /\ \A i \in Positions : getTotal[i] = epochs

BatchOps == <<"forward", "loss", "zero_grad", "backward", "step">>
InBatch == pc \in {"to_device", "forward", "loss", "zero_grad", "backward", "step"}
EpochEnded == pc \in {"avg", "print"}

\* C20: the training loop.  The epochs run from 0 upwards, one at a time, up
\* to the configured number; each epoch is one complete pass over the loader;
\* every batch goes through forward, loss, zero_grad, backward and one
\* optimizer step, in this order; an epoch takes as many optimizer steps as
\* the pass has batches; its report is printed after its last batch, once, and
\* the reports are 1, 2, ... in order.
C20_TrainingLoopOrder ==
    /\ [][epoch' # epoch => (epoch' = epoch + 1 /\ epoch' < epochs)]_vars
    /\ [][passNo' # passNo => (passNo' = epoch + 1 /\ pc = "iter")]_vars
    /\ [][ops' # ops =>
            \/ ops' = <<>> /\ pc = "next"
            \/ ops' = SubSeq(BatchOps, 1, Len(ops) + 1)]_vars
    /\ [][reports' # reports =>
            /\ reports' = Append(reports, epoch + 1)
            /\ PassComplete /\ passNo = epoch + 1
            /\ optSteps = BatchesPerPass /\ Len(batches) = BatchesPerPass]_vars
    /\ [](/\ reports = [k \in 1..Len(reports) |-> k]
          /\ Len(reports) \in {epoch, epoch + 1}
          /\ epoch < epochs)
    /\ []((pc \in {"accumulate", "next"} /\ Len(batches) > 0) => ops = BatchOps)
    /\ [](InBatch => (optSteps = Len(batches) - 1 /\ itState = "active"))
    /\ []((pc \in {"accumulate", "next"} \/ EpochEnded) => optSteps = Len(batches))
    /\ [](EpochEnded =>
            (PassComplete /\ passNo = epoch + 1 /\ Len(batches) = BatchesPerPass))
    /\ [](pc = "done" => (epoch = epochs - 1 /\ Len(reports) = epochs))

C20_Witness ==
    /\ pc = "done" /\ reports = [k \in 1..epochs |-> k]
    /\ InputLen = 3 /\ BatchSize = 2 /\ dataloader.shuffle
    /\ optSteps = 2 /\ passNo = epochs /\ Len(batches) = 2
    /\ avg_loss.den = 2

----------------------------------------------------------------------------
\* the row of X a Python index of a successful get stands for
RowOf(idx) == X[(IF idx < 0 THEN idx + InputLen ELSE idx) + 1]

\* the source pixels under the four stages of the transform's result
SourcePixels(tensor) == tensor.data.from.from.from.from

\* img is the ImgSide x ImgSide grid of buf in row-major order, as bytes,
\* with three equal channels
RowMajorThreeChannels(img, buf) ==
    /\ img.h = ImgSide /\ img.w = ImgSide
    /\ DOMAIN img.px = 1..ImgSide
    /\ \A r \in 1..ImgSide :
          /\ DOMAIN img.px[r] = 1..ImgSide
          /\ \A c \in 1..ImgSide :
                /\ DOMAIN img.px[r][c] = 1..NumChannels
                /\ \A ch \in 1..NumChannels :
                      img.px[r][c][ch] = buf[(r - 1) * ImgSide + c] % Uint8Mod

ModelInputShape(tensor) ==
    /\ tensor.type = "Tensor"
    /\ tensor.shape = <<NumChannels, CropSize, CropSize>>

\* C21: for the flat-buffer store, a successful dataset[i] reshapes the
\* ImgSide*ImgSide values of sample i into an ImgSide x ImgSide grid in
\* row-major order (pixel (r, c) is value (r-1)*ImgSide + c of the buffer),
\* gives every pixel three equal channel values, and only then applies the
\* transform, whose source pixels are that image; the tensor returned, and
\* every tensor of a batch, has the shape NumChannels x CropSize x CropSize.
C21_RowMajorThreeChannelsShape ==
    /\ (dataset.kind = "flat" /\ ret.call = "getitem" /\ ret.tag = "item") =>
          /\ Len(tlog) = 1
          /\ RowMajorThreeChannels(tlog[1], RowOf(ret.idx))
          /\ SourcePixels(ret.feature) = tlog[1].px
          /\ ModelInputShape(ret.feature)
    /\ (dataset.kind = "flat" /\ ret.tag = "batch") =>
          LET group == batches[Len(batches)] IN
          \A k \in 1..Len(group) :
             /\ RowMajorThreeChannels(tlog[k], RowOf(group[k]))
             /\ SourcePixels(ret.features[k]) = tlog[k].px
             /\ ModelInputShape(ret.features[k])

\* a get of the last sample by a negative index whose buffer tells row-major
\* from column-major order, with the shape the model expects
C21_Witness ==
    /\ dataset.kind = "flat" /\ ret.call = "getitem" /\ ret.tag = "item"
    /\ ret.idx = -1 /\ InputLen = MaxN
    /\ X[MaxN][2] # X[MaxN][ImgSide + 1]
    /\ tlog[1].px[1][2][NumChannels] = X[MaxN][2] % Uint8Mod
    /\ ret.feature.shape = <<3, 224, 224>>

----------------------------------------------------------------------------
AfterBatch == pc \in {"next", "avg", "print"}

\* C22: the loss accumulator of the training loop.  Each epoch sets it to
\* zero before its first batch; after that it changes only by the addition
\* of the loss of the batch at hand, once per batch, so that between batches
\* the additions of the epoch number the batches yielded and the sum holds
\* this epoch's losses only; len(train_loader), the divisor of the average,
\* is the number of batches the pass has yielded, ceil(size / batch size),
\* also when the last batch is shorter.
C22_LossAccumulator ==
    /\ [][pc = "reset" => total_epoch_loss' = 0]_vars
    /\ [][total_epoch_loss' # total_epoch_loss =>
            \/ pc = "reset"
            \/ /\ pc = "accumulate" /\ ret.tag = "batch"
               /\ total_epoch_loss' = total_epoch_loss + loss.item
               /\ lossAdds' = lossAdds + 1]_vars
    /\ [][lossAdds' # lossAdds =>
            \/ pc = "for_epoch" /\ lossAdds' = 0 /\ epoch' = epoch + 1
            \/ pc = "accumulate" /\ lossAdds' = lossAdds + 1]_vars
    /\ [](pc = "iter" => (total_epoch_loss = 0 /\ lossAdds = 0))
    /\ [](AfterBatch => lossAdds = Len(batches))
    /\ [](InBatch \/ pc = "accumulate" => lossAdds = Len(batches) - 1)
    /\ []((AfterBatch \/ InBatch \/ pc = "accumulate") =>
            total_epoch_loss \in 0..(lossAdds * MaxLoss))
    /\ [](pc = "avg" =>
            /\ DataLoader__len__(dataset, dataloader) = Len(batches)
            /\ Len(batches) = CeilDiv(InputLen, BatchSize))
    /\ [](pc = "print" =>
            /\ avg_loss.state = "value"
            /\ avg_loss.num = total_epoch_loss
            /\ avg_loss.den = lossAdds
            /\ avg_loss.den = CeilDiv(InputLen, BatchSize))

\* the second epoch has divided by two batches, the last one shorter, after
\* a first epoch that had a loss to carry
C22_Witness ==
    /\ pc = "print" /\ epoch = 1 /\ Len(reports) = 1
    /\ InputLen = 3 /\ BatchSize = 2
    /\ Len(batches) = 2 /\ Len(batches[2]) = 1
    /\ avg_loss.den = 2 /\ avg_loss.num = 1 /\ lossAdds = 2

----------------------------------------------------------------------------
\* the statements of the evaluation cell: before the loop, in the loop on a
\* batch, after the loop
EvalCounting == {"no_grad", "eval_iter", "eval_next", "eval_to_device",
                 "eval_forward", "eval_predict", "eval_total", "eval_correct",
                 "no_grad_exit", "print_accuracy", "eval_done"}
EvalBatchUncounted == {"eval_to_device", "eval_forward", "eval_predict", "eval_total"}
EvalLoopEnded == {"no_grad_exit", "print_accuracy", "eval_done"}
LastBatch == batches[Len(batches)]

\* C23: the counters of the evaluation.  Once set to zero they satisfy
\* 0 <= correct <= total at every point; total changes only by the addition
\* of the number of samples of the batch at hand, so that between batches it
\* is the number of indices the pass has consumed; correct grows by at most
\* that number; when the loop has ended the pass has fetched every index of
\* the test store once and total is the size of the store, and the quotient
\* printed is correct/total with 0 <= correct <= total and total > 0.
C23_EvaluationCounters ==
    /\ [](pc \in EvalCounting => (0 <= correct /\ correct <= total))
    /\ [][total' # total =>
            \/ pc = "eval_init" /\ total' = 0
            \/ /\ pc = "eval_total" /\ ret.tag = "batch"
               /\ total' = total + Len(LastBatch)
               /\ Len(LastBatch) = Len(ret.labels)]_vars
    /\ [][correct' # correct =>
            \/ pc = "eval_init" /\ correct' = 0
            \/ /\ pc = "eval_correct"
               /\ correct' - correct \in 1..Len(LastBatch)]_vars
    /\ [](pc \in {"eval_next", "eval_correct"} \cup EvalLoopEnded => total = pos)
    /\ [](pc \in EvalBatchUncounted => total = pos - Len(LastBatch))
    /\ [](pc \in EvalLoopEnded =>
            /\ total = InputLen
            /\ itState = "exhausted"
            /\ \A i \in 0..(InputLen - 1) : getCount[i] = 1)
    /\ [](pc = "eval_done" =>
            /\ accuracy = [state |-> "value", num |-> correct, den |-> total]
            /\ 0 <= accuracy.num /\ accuracy.num <= accuracy.den
            /\ accuracy.den > 0)

\* three test samples counted in a full and a short batch, two of them right
C23_Witness ==
    /\ pc = "eval_done" /\ InputLen = 3 /\ BatchSize = 2
    /\ Len(batches) = 2 /\ Len(batches[2]) = 1
    /\ accuracy.den = 3 /\ accuracy.num = 2

----------------------------------------------------------------------------
EvalRunning == {"eval_init"} \cup (EvalCounting \ {"eval_done"})
InNoGradBlock == {"eval_iter", "eval_next", "eval_to_device", "eval_forward",
                  "eval_predict", "eval_total", "eval_correct", "no_grad_exit"}

\* C24: the evaluation leaves the network alone.  From vgg16.eval() to the
\* end of the evaluation cell no step changes a parameter, a gradient or the
\* optimizer: the classifier has the value the training left (epochs passes
\* of optSteps steps) and the feature stage its pretrained value; the network
\* is in evaluation mode all the time; inside the with block gradient mode
\* is off and the outputs of the forward pass record no graph.
C24_EvaluationLeavesModel ==
    /\ [][(pc \in EvalRunning) =>
            /\ vgg16' = vgg16
            /\ optimizer' = optimizer
            /\ optSteps' = optSteps]_vars
    /\ [](pc \in EvalRunning \cup {"eval_done"} =>
            /\ vgg16.training = FALSE
            /\ vgg16.classifier.value = [origin |-> "initial",
                                         updates |-> epochs * optSteps]
            /\ vgg16.features.value = [origin |-> "pretrained", updates |-> 0])
    /\ [](pc \in InNoGradBlock => grad_enabled = FALSE)
    /\ [](pc \in {"eval_predict", "eval_total", "eval_correct"} =>
            (outputs.graph = {} /\ outputs.rows = Len(LastBatch)))

\* the evaluation has finished two batches on a network that came out of
\* training with gradients set
C24_Witness ==
    /\ pc = "eval_done" /\ Len(batches) = 2 /\ total = 2
    /\ vgg16.training = FALSE /\ vgg16.classifier.grad = "set"
    /\ vgg16.classifier.value.updates = epochs * MaxN
    /\ outputs.graph = {} /\ grad_enabled = TRUE

----------------------------------------------------------------------------
Bytes == 0..(Uint8Mod - 1)

\* b is the byte that differs from the integer v by a multiple of Uint8Mod
ByteOf(v, b) ==
    /\ b \in Bytes
    /\ \E q \in (-2)..2 : v = b + q * Uint8Mod

\* the bytes of img are those of the stored values buf
BytesOfBuffer(img, buf) ==
    \A r \in 1..ImgSide, c \in 1..ImgSide :
       LET v == buf[(r - 1) * ImgSide + c]
           b == img.px[r][c][1]
       IN  /\ ByteOf(v, b)
           /\ v \in Bytes => b = v

InRange(idx) == -InputLen <= idx /\ idx < InputLen

\* C25: the conversion to unsigned 8-bit in the flat-buffer store's get.  A
\* stored value in 0..255 comes out unchanged; any other integer comes out as
\* the byte congruent to it modulo 256; the conversion raises nothing: a get
\* fails only for an index out of range, whatever the stored values are, and
\* every batch of a pass is delivered.
C25_Uint8Conversion ==
    /\ (dataset.kind = "flat" /\ ret.call = "getitem") =>
          /\ ret.tag = "item" <=> InRange(ret.idx)
          /\ ret.tag = "item" => BytesOfBuffer(tlog[1], RowOf(ret.idx))
    /\ (dataset.kind = "flat" /\ Len(X) > 0 /\ Len(X[1]) = ImgSide * ImgSide) =>
          itState # "failed"
    /\ (dataset.kind = "flat" /\ ret.tag = "batch") =>
          \A k \in 1..Len(LastBatch) :
             BytesOfBuffer(tlog[k], RowOf(LastBatch[k]))

\* a get of a sample that stores a value above 255, a negative value and a
\* value in range
C25_Witness ==
    /\ dataset.kind = "flat" /\ ret.call = "getitem" /\ ret.tag = "item"
    /\ ret.idx = 0
    /\ X[1][3] > 255 /\ tlog[1].px[2][1][1] = X[1][3] - 256
    /\ X[1][4] < 0 /\ tlog[1].px[2][2][2] = X[1][4] + 256
    /\ X[1][1] \in 0..255 /\ tlog[1].px[1][1][3] = X[1][1]

====
